---- MODULE Spec2Model ----
(***************************************************************************)
(* hookah-master-bot: the sqlite data-access layer (Database /             *)
(* DatabaseExecutor) and the Flask routes built on it, in both variants    *)
(* kept in the repository:                                                 *)
(*   "legacy"  src/database, src/server           (string-built SQL)       *)
(*   "later"   src/src/hookah_master_helper/...   (parameterized SQL)      *)
(*                                                                         *)
(* SQL text is a sequence of tokens, built the way the f-strings build it; *)
(* the store parses the tokens back, binds the parameters and executes the *)
(* statement with sqlite's rules (constraints, statement-level rollback)   *)
(* and the sqlite3 module's implicit BEGIN before INSERT/UPDATE.           *)
(***************************************************************************)
EXTENDS Integers, Sequences, FiniteSets, TLC

VARIABLES variant, conn, inTx, work, disk, nopen, last, prev

vars == <<variant, conn, inTx, work, disk, nopen, last, prev>>

---------------------------------------------------------------------------
(* Bounds and input domains                                                *)

\* No more than this many connections are ever open at once in a run.
MaxOpen == 2

\* No table grows beyond this many rows in a run.
MaxRows == 3

\* cursor.fetchmany(size=10000)
FetchManySize == 10000

Variants == {"legacy", "later"}

\* Column values the callers pass; NULL is Python's None once bound.
Val == {"a", "b"}
NULL == "NULL"
Unknown == "unknown"

TableNames == {"tobaccos", "brands"}

\* The name of the key column of the tobaccos table, per variant.
KeyCol(v) == IF v = "legacy" THEN "mark" ELSE "brand"

\* The column list the request scripts insert into.
ScriptFields(v) == IF v = "legacy" THEN <<"mark", "aroma", "flavour", "potency">> ELSE <<"brand", "aroma", "taste">>

\* The columns dict handed to create_table for the tobaccos table: the key
\* column carries the uniqueness constraint, aroma is NOT NULL.
TobaccoSchema(v) == IF v = "legacy" THEN <<<<"mark", "TEXT UNIQUE">>, <<"aroma", "TEXT NOT NULL">>, <<"flavour", "TEXT">>, <<"potency", "INTEGER">>>> ELSE <<<<"brand", "TEXT UNIQUE">>, <<"aroma", "TEXT NOT NULL">>, <<"taste", "TEXT">>>>

\* TOBACCO_POTENCY.get(key, 0) for keys that are not in the mapping.
DefaultPotency == "0"

---------------------------------------------------------------------------
(* Sequences of tokens                                                     *)

RECURSIVE Join(_, _)
\* sep.join(items), one token per item and per separator.
Join(items, sep) == IF Len(items) = 0 THEN <<>> ELSE IF Len(items) = 1 THEN <<items[1]>> ELSE <<items[1], sep>> \o Join(Tail(items), sep)

\* ['?'] * n
Placeholders(n) == [i \in 1..n |-> "?"]

RECURSIVE Items(_, _, _)
\* The items of a sep-separated list that starts at text[i]; the list ends at
\* the first token that follows an item and is not sep.
Items(text, i, sep) == IF i > Len(text) THEN <<>> ELSE <<text[i]>> \o (IF i + 1 <= Len(text) /\ text[i + 1] = sep THEN Items(text, i + 2, sep) ELSE <<>>)

RECURSIVE Pairs(_, _, _, _)
\* The groups of a sep-separated list that starts at text[i], each group
\* "name = term" (mid = TRUE) or "name term" (mid = FALSE), as
\* <<name, position of the term>>.
Pairs(text, i, mid, sep) ==
    LET w == IF mid THEN 3 ELSE 2
    IN  IF i + w - 1 > Len(text) THEN <<>> ELSE <<<<text[i], i + w - 1>>>> \o (IF i + w <= Len(text) /\ text[i + w] = sep THEN Pairs(text, i + w + 1, mid, sep) ELSE <<>>)

\* The position of the first occurrence of tok in text, 0 when absent.
IndexOf(text, tok) == IF \E i \in 1..Len(text) : text[i] = tok THEN CHOOSE i \in 1..Len(text) : text[i] = tok /\ \A j \in 1..(i - 1) : text[j] # tok ELSE 0

\* The number of "?" among the first n tokens of text.
QMarks(text, n) == Cardinality({i \in 1..n : i <= Len(text) /\ text[i] = "?"})

\* A term of the statement with its parameter bound: the k-th "?" of the text
\* takes params[k]; any other term is a literal and stands for itself.
Bound(text, pos, params) == IF text[pos] = "?" THEN params[QMarks(text, pos)] ELSE text[pos]

Range(s) == {s[i] : i \in 1..Len(s)}

---------------------------------------------------------------------------
(* The store: a sqlite database as one connection sees it                  *)

\* A table that does not exist has no columns.
NoTable == [schema |-> <<>>, rows |-> <<>>]

EmptyDB == [t \in TableNames |-> NoTable]

Exists(db, t) == t \in DOMAIN db /\ db[t].schema # <<>>

Cols(tb) == [i \in 1..Len(tb.schema) |-> tb.schema[i][1]]

\* The position of column c in the table, 0 when it has no such column.
ColIndex(tb, c) == IndexOf(Cols(tb), c)

IsUnique(ty) == ty = "TEXT UNIQUE"

IsNotNull(ty) == ty = "TEXT NOT NULL"

\* Some NOT NULL column of the table holds NULL in the row.
BreaksNotNull(tb, row) == \E j \in 1..Len(tb.schema) : IsNotNull(tb.schema[j][2]) /\ row[j] = NULL

\* Two rows of the list share a non-NULL value in a UNIQUE column.
BreaksUnique(tb, rows) == \E j \in 1..Len(tb.schema) : IsUnique(tb.schema[j][2]) /\ \E x, y \in 1..Len(rows) : x # y /\ rows[x][j] # NULL /\ rows[x][j] = rows[y][j]

\* What executing a statement gives: the error raised ("None" for success,
\* with the constraint that failed in detail), the database afterwards, the
\* result set, the row count, and whether the statement got as far as
\* running (it was prepared and its parameters fit).
StoreResult(err, detail, db, rows, rowcount, ran) == [err |-> err, detail |-> detail, db |-> db, rows |-> rows, rowcount |-> rowcount, ran |-> ran]

StoreError(err, detail, db, ran) == StoreResult(err, detail, db, <<>>, -1, ran)

\* CREATE TABLE [IF NOT EXISTS] name (col type, ...)
SqliteCreate(db, text) ==
    LET name == text[2]
        decl == Pairs(text, 4, FALSE, ",")
        schema == [i \in 1..Len(decl) |-> <<decl[i][1], text[decl[i][2]]>>]
    IN  IF Exists(db, name) /\ text[1] = "CREATE TABLE" THEN StoreError("OperationalError", "table already exists", db, FALSE)
        ELSE IF Exists(db, name) THEN StoreResult("None", "", db, <<>>, -1, TRUE)
        ELSE StoreResult("None", "", [db EXCEPT ![name] = [schema |-> schema, rows |-> <<>>]], <<>>, -1, TRUE)

\* INSERT INTO name [(field, ...)] VALUES (term, ...)
SqliteInsert(db, text, params) ==
    LET name == text[2]
        named == text[3] = "("
        fields == IF named THEN Items(text, 4, ",") ELSE <<>>
        vpos == IndexOf(text, "VALUES") + 2
        nvals == Len(Items(text, vpos, ","))
        tb == db[name]
        target == IF named THEN fields ELSE Cols(tb)
        value(k) == Bound(text, vpos + 2 * (k - 1), params)
        row == [j \in 1..Len(tb.schema) |-> IF IndexOf(target, tb.schema[j][1]) = 0 THEN NULL ELSE value(IndexOf(target, tb.schema[j][1]))]
    IN  IF ~Exists(db, name) THEN StoreError("OperationalError", "no such table", db, FALSE)
        ELSE IF \E k \in 1..Len(fields) : ColIndex(tb, fields[k]) = 0 THEN StoreError("OperationalError", "no such column", db, FALSE)
        ELSE IF nvals # Len(target) THEN StoreError("OperationalError", "values for columns", db, FALSE)
        ELSE IF QMarks(text, Len(text)) # Len(params) THEN StoreError("ProgrammingError", "bindings", db, TRUE)
        ELSE IF BreaksNotNull(tb, row) THEN StoreError("IntegrityError", "NOT NULL", db, TRUE)
        ELSE IF BreaksUnique(tb, Append(tb.rows, row)) THEN StoreError("IntegrityError", "UNIQUE", db, TRUE)
        ELSE StoreResult("None", "", [db EXCEPT ![name].rows = Append(tb.rows, row)], <<>>, 1, TRUE)

\* A row satisfies "col = term AND ...": every comparison is on equal,
\* non-NULL values.
Matches(tb, row, conds, text, params) == \A k \in 1..Len(conds) : row[ColIndex(tb, conds[k][1])] # NULL /\ row[ColIndex(tb, conds[k][1])] = Bound(text, conds[k][2], params)

\* UPDATE name SET col = term, ... [WHERE col = term AND ...]
SqliteUpdate(db, text, params) ==
    LET name == text[2]
        sets == Pairs(text, 4, TRUE, ",")
        wpos == IndexOf(text, "WHERE")
        conds == IF wpos = 0 THEN <<>> ELSE Pairs(text, wpos + 1, TRUE, "AND")
        tb == db[name]
        hit(row) == Matches(tb, row, conds, text, params)
        assigned(j) == {k \in 1..Len(sets) : ColIndex(tb, sets[k][1]) = j}
        new(row) == [j \in 1..Len(row) |-> IF assigned(j) = {} THEN row[j] ELSE Bound(text, sets[CHOOSE k \in assigned(j) : \A m \in assigned(j) : k <= m][2], params)]
        rows == [i \in 1..Len(tb.rows) |-> IF hit(tb.rows[i]) THEN new(tb.rows[i]) ELSE tb.rows[i]]
        count == Cardinality({i \in 1..Len(tb.rows) : hit(tb.rows[i])})
    IN  IF ~Exists(db, name) THEN StoreError("OperationalError", "no such table", db, FALSE)
        ELSE IF \E k \in 1..Len(sets) : ColIndex(tb, sets[k][1]) = 0 THEN StoreError("OperationalError", "no such column", db, FALSE)
        ELSE IF \E k \in 1..Len(conds) : ColIndex(tb, conds[k][1]) = 0 THEN StoreError("OperationalError", "no such column", db, FALSE)
        ELSE IF QMarks(text, Len(text)) # Len(params) THEN StoreError("ProgrammingError", "bindings", db, TRUE)
        ELSE IF \E i \in 1..Len(tb.rows) : hit(tb.rows[i]) /\ BreaksNotNull(tb, rows[i]) THEN StoreError("IntegrityError", "NOT NULL", db, TRUE)
        ELSE IF count > 0 /\ rows # tb.rows /\ BreaksUnique(tb, rows) THEN StoreError("IntegrityError", "UNIQUE", db, TRUE)
        ELSE StoreResult("None", "", [db EXCEPT ![name].rows = rows], <<>>, count, TRUE)

RECURSIVE Distinct(_)
\* The rows without repetitions, first occurrences kept.
Distinct(rows) == IF rows = <<>> THEN <<>> ELSE LET rest == Distinct(SubSeq(rows, 1, Len(rows) - 1)) IN IF rows[Len(rows)] \in Range(rest) THEN rest ELSE Append(rest, rows[Len(rows)])

\* SELECT [DISTINCT] field, ... FROM name [WHERE col = term AND ...]
SqliteSelect(db, text, params) ==
    LET fields == Items(text, 2, ",")
        fpos == IndexOf(text, "FROM")
        name == text[fpos + 1]
        wpos == IndexOf(text, "WHERE")
        conds == IF wpos = 0 THEN <<>> ELSE Pairs(text, wpos + 1, TRUE, "AND")
        tb == db[name]
        hit(row) == Matches(tb, row, conds, text, params)
        project(row) == IF fields = <<"*">> THEN row ELSE [k \in 1..Len(fields) |-> row[ColIndex(tb, fields[k])]]
        kept == SelectSeq(tb.rows, hit)
        out == [i \in 1..Len(kept) |-> project(kept[i])]
    IN  IF ~Exists(db, name) THEN StoreError("OperationalError", "no such table", db, FALSE)
        ELSE IF fields # <<"*">> /\ \E k \in 1..Len(fields) : ColIndex(tb, fields[k]) = 0 THEN StoreError("OperationalError", "no such column", db, FALSE)
        ELSE IF \E k \in 1..Len(conds) : ColIndex(tb, conds[k][1]) = 0 THEN StoreError("OperationalError", "no such column", db, FALSE)
        ELSE IF QMarks(text, Len(text)) # Len(params) THEN StoreError("ProgrammingError", "bindings", db, TRUE)
        ELSE StoreResult("None", "", db, IF text[1] = "SELECT DISTINCT" THEN Distinct(out) ELSE out, -1, TRUE)

\* cursor.execute(query, params) on an open connection.
SqliteExecute(db, text, params) ==
    CASE text[1] \in {"CREATE TABLE IF NOT EXISTS", "CREATE TABLE"} -> SqliteCreate(db, text)
      [] text[1] = "INSERT INTO" -> SqliteInsert(db, text, params)
      [] text[1] = "UPDATE" -> SqliteUpdate(db, text, params)
      [] OTHER -> SqliteSelect(db, text, params)

\* The sqlite3 module opens a transaction before an INSERT or UPDATE runs.
IsDML(text) == text[1] \in {"INSERT INTO", "UPDATE"}

---------------------------------------------------------------------------
(* Database: the connection manager                                        *)

\* A manager object and the store behind it: self.connection ("None", an
\* "open" connection or a "closed" one), whether the connection has an open
\* transaction, the database as the connection sees it, the committed
\* database, and the number of connections open in the process.
World(c, tx, wk, dk, n) == [conn |-> c, inTx |-> tx, work |-> wk, disk |-> dk, nopen |-> n]

\* Database.__init__: no connection yet.
NewManager(dk, n) == World("None", FALSE, dk, dk, n)

\* What a call gives its caller: the manager and store afterwards, the
\* outcome ("None": returned None; "msg": returned a conflict message;
\* "row", "rows", "int": returned a value; else the exception raised), the
\* store's message, the rows or the count returned, whether a statement
\* reached the store, and the statement.
Reply(w, outcome, detail, rows, rowcount, io, sql, params) == [w |-> w, outcome |-> outcome, detail |-> detail, rows |-> rows, rowcount |-> rowcount, io |-> io, sql |-> sql, params |-> params]

Raised(w, exc, sql, params) == Reply(w, exc, "", <<>>, -1, FALSE, sql, params)

Returns == {"None", "msg", "row", "rows", "int"}

\* __enter__: sqlite3.connect(...) opens a new connection on the file.
DbEnter(w) == [w EXCEPT !.conn = "open", !.inTx = FALSE, !.work = w.disk, !.nopen = w.nopen + 1]

\* connection.close(): uncommitted changes are rolled back; closing a closed
\* connection does nothing.
SqliteClose(w) == IF w.conn = "open" THEN [w EXCEPT !.conn = "closed", !.inTx = FALSE, !.work = w.disk, !.nopen = w.nopen - 1] ELSE w

\* A variant of __exit__ that closes only when the body raised nothing.
DbExit_CloseOnSuccessOnly(w, exc_type) == IF exc_type = "None" THEN SqliteClose(w) ELSE w

\* __exit__(exc_type, ...): closes, and returns None, so that an exception of
\* the body propagates.
DbExit(w, exc_type) == SqliteClose(w)

\* connection.commit()
SqliteCommit(w) == [w EXCEPT !.inTx = FALSE, !.disk = w.work]

\* What Database.execute returns on success: it has no return statement.
ExecuteReturn == "None"

\* ensure_context + Database.execute: the guard looks at self.connection
\* only; sqlite itself refuses a closed connection. With no transaction open
\* the store is in autocommit mode and a statement's effect is committed at
\* once; the sqlite3 module begins a transaction before an INSERT or UPDATE
\* and a failed statement leaves it open.
Executed(w, r, tx, query, params) == Reply([w EXCEPT !.inTx = tx, !.work = r.db, !.disk = IF tx THEN w.disk ELSE r.db], r.err, r.detail, r.rows, r.rowcount, TRUE, query, params)

CursorExecute(w, r, query, params) == Executed(w, r, w.inTx \/ (IsDML(query) /\ r.ran), query, params)

DbExecute(w, query, params) ==
    IF w.conn = "None" THEN Raised(w, "RuntimeError", query, params)
    ELSE IF w.conn = "closed" THEN Raised(w, "ProgrammingError", query, params)
    ELSE CursorExecute(w, SqliteExecute(w.work, query, params), query, params)

---------------------------------------------------------------------------
(* DatabaseExecutor                                                        *)

RECURSIVE ColumnDefs(_)
\* ", ".join(f"{col_name} {data_type}" for ...)
ColumnDefs(columns) == IF Len(columns) = 0 THEN <<>> ELSE IF Len(columns) = 1 THEN <<columns[1][1], columns[1][2]>> ELSE <<columns[1][1], columns[1][2], ",">> \o ColumnDefs(Tail(columns))

\* A variant of create_table that leaves out IF NOT EXISTS.
create_table_NoIfNotExists(w, table_name, columns) ==
    IF columns = <<>> THEN Raised(w, "ValueError", <<>>, <<>>)
    ELSE DbExecute(w, <<"CREATE TABLE", table_name, "(">> \o ColumnDefs(columns) \o <<")">>, <<>>)

create_table(w, table_name, columns) ==
    IF columns = <<>> THEN Raised(w, "ValueError", <<>>, <<>>)
    ELSE DbExecute(w, <<"CREATE TABLE IF NOT EXISTS", table_name, "(">> \o ColumnDefs(columns) \o <<")">>, <<>>)

\* SELECT ... FROM ... [WHERE ...], legacy: fields and where are SQL text.
SelectLegacy(table_name, fields, where) == <<"SELECT">> \o (IF fields = <<>> THEN <<"*">> ELSE fields) \o <<"FROM", table_name>> \o (IF where # <<>> THEN <<"WHERE">> \o where ELSE <<>>)

\* cursor.fetchone(): the first row of the result, or None.
FetchOneOf(r) == IF r.outcome # "None" THEN r ELSE IF r.rows = <<>> THEN r ELSE [r EXCEPT !.outcome = "row", !.rows = <<r.rows[1]>>]

\* cursor.fetchmany(size) and cursor.fetchall(): a list, empty or not.
FetchListOf(r, size) == IF r.outcome # "None" THEN r ELSE [r EXCEPT !.outcome = "rows", !.rows = IF Len(r.rows) > size THEN SubSeq(r.rows, 1, size) ELSE r.rows]

FetchAllOf(r) == IF r.outcome # "None" THEN r ELSE [r EXCEPT !.outcome = "rows"]

fetchone_legacy(w, table_name, fields, where) == FetchOneOf(DbExecute(w, SelectLegacy(table_name, fields, where), <<>>))

fetchmany(w, table_name, fields, where) == FetchListOf(DbExecute(w, SelectLegacy(table_name, fields, where), <<>>), FetchManySize)

\* later: fields is a list of names, where is (condition_str, values).
fetchone_later(w, table_name, fields, where) == FetchOneOf(DbExecute(w, <<"SELECT">> \o (IF fields = <<>> THEN <<"*">> ELSE Join(fields, ",")) \o <<"FROM", table_name>> \o (IF where # <<>> THEN <<"WHERE">> \o where[1] ELSE <<>>), IF where # <<>> THEN where[2] ELSE <<>>))

\* later: fields and where are SQL text again.
fetchall(w, table_name, fields, where, distinct) == FetchAllOf(DbExecute(w, <<IF distinct THEN "SELECT DISTINCT" ELSE "SELECT">> \o (IF fields = <<>> THEN <<"*">> ELSE fields) \o <<"FROM", table_name>> \o (IF where # <<>> THEN <<"WHERE">> \o where ELSE <<>>), <<>>))

\* legacy update: values and where are SQL text. Returns None.
Committed(r) == IF r.outcome # "None" THEN r ELSE [r EXCEPT !.w = SqliteCommit(r.w)]

\* A variant of the legacy update that drops the condition.
update_legacy_NoWhere(w, table_name, values, where) == Committed(DbExecute(w, <<"UPDATE", table_name, "SET">> \o values, <<>>))

update_legacy(w, table_name, values, where) == Committed(DbExecute(w, <<"UPDATE", table_name, "SET">> \o values \o (IF where # <<>> THEN <<"WHERE">> \o where ELSE <<>>), <<>>))

RECURSIVE EqualsPlaceholder(_, _)
\* sep.join(f"{field} = ?" for field, _ in pairs)
EqualsPlaceholder(pairs, sep) == IF Len(pairs) = 0 THEN <<>> ELSE IF Len(pairs) = 1 THEN <<pairs[1][1], "=", "?">> ELSE <<pairs[1][1], "=", "?", sep>> \o EqualsPlaceholder(Tail(pairs), sep)

\* [v for _, v in pairs]
Seconds(pairs) == [i \in 1..Len(pairs) |-> pairs[i][2]]

\* later update, the statement: values and where are lists of (field, value).
update_query(table_name, values, where) == <<"UPDATE", table_name, "SET">> \o EqualsPlaceholder(values, ",") \o (IF where # <<>> THEN <<"WHERE">> \o EqualsPlaceholder(where, "AND") ELSE <<>>)

update_vals(values, where) == Seconds(values) \o (IF where # <<>> THEN Seconds(where) ELSE <<>>)

\* later update: cursor is what self.execute returned; the commit comes
\* before cursor.rowcount is read; only IntegrityError is translated.
UpdateTail(r, cursor) ==
    IF r.outcome = "IntegrityError" THEN [r EXCEPT !.outcome = "ValueError"]
    ELSE IF r.outcome # "None" THEN r
    ELSE IF cursor = "None" THEN [r EXCEPT !.w = SqliteCommit(r.w), !.outcome = "AttributeError"]
    ELSE [r EXCEPT !.w = SqliteCommit(r.w), !.outcome = "int"]

update_later(w, table_name, values, where) == UpdateTail(DbExecute(w, update_query(table_name, values, where), update_vals(values, where)), ExecuteReturn)

\* legacy insert: values ("(...)") and fields are SQL text.
\* A variant of the end of insert with no except clause.
InsertTail_NoExcept(r) == Committed(r)

\* try: self.execute(...) except sqlite3.IntegrityError: return the message;
\* else commit and return None. detail keeps the constraint that failed.
InsertTail(r) ==
    IF r.outcome = "IntegrityError" THEN [r EXCEPT !.outcome = "msg"]
    ELSE IF r.outcome # "None" THEN r
    ELSE [r EXCEPT !.w = SqliteCommit(r.w)]

insert_legacy(w, table_name, values, fields) == InsertTail(DbExecute(w, <<"INSERT INTO", table_name>> \o (IF fields # <<>> THEN <<"(">> \o fields \o <<")">> ELSE <<>>) \o <<"VALUES">> \o values, <<>>))

\* A variant of the later statement that writes the values into the text, as
\* the legacy insert does.
insert_query_Interpolated(table_name, values, fields) == <<"INSERT INTO", table_name>> \o (IF fields # <<>> THEN <<"(">> \o Join(fields, ",") \o <<")">> ELSE <<>>) \o <<"VALUES", "(">> \o Join(values, ",") \o <<")">>

\* later insert, the statement: values and fields are tuples.
insert_query(table_name, values, fields) == IF fields # <<>> THEN <<"INSERT INTO", table_name, "(">> \o Join(fields, ",") \o <<")", "VALUES", "(">> \o Join(Placeholders(Len(values)), ",") \o <<")">> ELSE <<"INSERT INTO", table_name, "VALUES", "(">> \o Join(Placeholders(Len(values)), ",") \o <<")">>

\* later insert: any IntegrityError becomes the returned message.
insert_later(w, table_name, values, fields) == InsertTail(DbExecute(w, insert_query(table_name, values, fields), values))

---------------------------------------------------------------------------
(* The request scripts and the Flask routes                                *)

\* dict.get(key, default)
Get(d, k, default) == IF k \in DOMAIN d THEN d[k] ELSE default

EmptyDict == <<>>

\* str.lower() on the values the model passes.
Lower(x) == IF x = "A" THEN "a" ELSE IF x = "B" THEN "b" ELSE x

RECURSIVE Flatten(_)
\* for key in request: for entry in request[key], as <<key, entry>> in order.
Flatten(request) == IF request = <<>> THEN <<>> ELSE [i \in 1..Len(request[1][2]) |-> <<request[1][1], request[1][2][i]>>] \o Flatten(Tail(request))

\* legacy: the VALUES text of one entry; the flavour goes first, the aroma
\* second, as the f-string has them.
EntryValues(key, entry) == <<"(", key, ",", Get(entry, "flavour", Unknown), ",", Get(entry, "aroma", Unknown), ",", DefaultPotency, ")">>

RECURSIVE InsertEach(_, _, _)
RECURSIVE Appended(_, _, _, _)
\* legacy: the loop of add_tobacco_to_database from item k on; an insert
\* that raises ends the loop and the exception leaves the with block.
InsertEach(r, items, k) == IF k > Len(items) THEN [r EXCEPT !.outcome = "rows"] ELSE Appended(r, insert_legacy(r.w, "tobaccos", EntryValues(items[k][1], items[k][2]), Join(ScriptFields("legacy"), ",")), items, k)

\* A variant of the loop that stops at the first conflicting entry.
Appended_StopAtConflict(r, one, items, k) == IF one.outcome \notin {"None", "msg"} THEN one ELSE IF one.outcome = "msg" THEN [one EXCEPT !.rows = Append(r.rows, one.outcome), !.outcome = "rows"] ELSE InsertEach([one EXCEPT !.rows = Append(r.rows, one.outcome)], items, k + 1)

\* list_of_duplicates.append(database.insert(...)), and the rest of the loop.
Appended(r, one, items, k) == IF one.outcome \notin {"None", "msg"} THEN one ELSE InsertEach([one EXCEPT !.rows = Append(r.rows, one.outcome)], items, k + 1)

\* The with block of a script: a new manager, the body, __exit__.
Leave(r) == [r EXCEPT !.w = DbExit(r.w, IF r.outcome \in Returns THEN "None" ELSE r.outcome)]

Entered(dk, n) == DbEnter(NewManager(dk, n))

add_tobacco_to_database_legacy(dk, n, request) == Leave(InsertEach(Reply(Entered(dk, n), "None", "", <<>>, -1, FALSE, <<>>, <<>>), Flatten(request), 1))

\* later: request.get('brand') is None when the key is missing, and None has
\* no lower().
AddLaterBody(w, request) ==
    IF "brand" \notin DOMAIN request THEN Raised(w, "AttributeError", <<>>, <<>>)
    ELSE insert_later(w, "tobaccos", <<Lower(request["brand"]), Lower(Get(request, "flavour", Unknown)), Lower(Get(request, "taste", Unknown))>>, ScriptFields("later"))

add_tobacco_to_database_later(dk, n, request) == Leave(AddLaterBody(Entered(dk, n), request))

\* Both variants call database.fetchmany; the later DatabaseExecutor has no
\* such method.
GetTobaccoBody(v, w) == IF v = "legacy" THEN fetchmany(w, "tobaccos", <<>>, <<>>) ELSE Raised(w, "AttributeError", <<>>, <<>>)

get_tobacco_from_db(v, dk, n) == Leave(GetTobaccoBody(v, Entered(dk, n)))

get_tobacco_from_db_by_mark(dk, n, mark) == Leave(fetchmany(Entered(dk, n), "tobaccos", <<>>, <<"mark", "=", mark>>))

\* [row[0] for row in data]
FirstOfEach(r) == IF r.outcome = "rows" THEN [r EXCEPT !.rows = [i \in 1..Len(r.rows) |-> r.rows[i][1]]] ELSE r

get_all_brands(dk, n) == Leave(FirstOfEach(fetchall(Entered(dk, n), "tobaccos", <<"brand">>, <<>>, TRUE)))

\* A response: the script's reply with the status of the response; an
\* exception that no handler catches is a 500.
Respond(r, status) == [r |-> r, status |-> IF r.outcome \in Returns THEN status ELSE 500]

\* any(result)
AnyTruthy(list) == \E i \in 1..Len(list) : list[i] # "None"

\* POST /api/tobacco/
\* if any(result) (legacy, a list), if result (later, a message or None)
PostResponse(v, r) == Respond(r, IF (IF v = "legacy" THEN AnyTruthy(r.rows) ELSE r.outcome = "msg") THEN 207 ELSE 201)

\* if not result: abort(404)
GetResponse(r) == Respond(r, IF r.rows = <<>> THEN 404 ELSE 200)

manage_tobacco_post(v, dk, n, data) == PostResponse(v, IF v = "legacy" THEN add_tobacco_to_database_legacy(dk, n, data) ELSE add_tobacco_to_database_later(dk, n, data))

\* GET /api/tobacco/
manage_tobacco_get(v, dk, n) == GetResponse(get_tobacco_from_db(v, dk, n))

\* GET /api/tobacco/<mark> (legacy)
get_by_mark(dk, n, mark) == GetResponse(get_tobacco_from_db_by_mark(dk, n, mark))

\* GET /api/tobacco/brands (later)
get_all_brands_from_db(dk, n) == GetResponse(get_all_brands(dk, n))

---------------------------------------------------------------------------
(* The state machine: one manager object used by a caller, and requests    *)

\* The manager object and the store, from the variables.
Now == World(conn, inTx, work, disk, nopen)

\* What the last operation was and gave; again: it repeats, with the same
\* arguments, the call made just before it.
Did(op, args, r, status) == [op |-> op, args |-> args, again |-> (last.op = op /\ last.args = args), outcome |-> r.outcome, detail |-> r.detail, rows |-> r.rows, rowcount |-> r.rowcount, io |-> r.io, sql |-> r.sql, params |-> r.params, status |-> status]

Nothing(w) == Reply(w, "None", "", <<>>, -1, FALSE, <<>>, <<>>)

\* Nothing has been called yet.
FirstDid(r) == [op |-> "__init__", args |-> <<>>, again |-> FALSE, outcome |-> r.outcome, detail |-> r.detail, rows |-> r.rows, rowcount |-> r.rowcount, io |-> r.io, sql |-> r.sql, params |-> r.params, status |-> 0]

\* The manager and the store become what the call left.
Becomes(w) == /\ conn' = w.conn
              /\ inTx' = w.inTx
              /\ work' = w.work
              /\ disk' = w.disk
              /\ nopen' = w.nopen

ExecutorOps == {"create_table", "fetchone", "fetchmany", "fetchall", "update", "insert"}

\* The inputs the caller draws from.
SchemaInputs == {TobaccoSchema(variant), <<>>}
AromaInputs == {"a", NULL}
WhereInputs == Val \cup {"-"}
SetInputs == {<<"aroma", "b">>, <<"aroma", NULL>>, <<KeyCol(variant), "a">>}

\* The posted JSON documents: legacy maps a mark to a list of entries, later
\* is one flat object.
LegacyRequests == {<<>>, <<<<"a", <<EmptyDict>>>>>>, <<<<"a", <<EmptyDict, [flavour |-> "a"]>>>>>>, <<<<"a", <<EmptyDict>>>>, <<"b", <<[flavour |-> "a"]>>>>>>}
LaterRequests == {[brand |-> "a"], [brand |-> "B", flavour |-> "A"], [flavour |-> "a"]}

Init == /\ variant \in Variants
        /\ conn = "None"
        /\ inTx = FALSE
        /\ work = EmptyDB
        /\ disk = EmptyDB
        /\ nopen = 0
        /\ last = FirstDid(Nothing(Now))
        /\ prev = last

\* with db: ... on a manager that is not inside a with block.
Enter == /\ conn # "open"
         /\ nopen < MaxOpen
         /\ Becomes(DbEnter(Now))
         /\ last' = Did("__enter__", <<>>, Nothing(Now), 0)
         /\ UNCHANGED <<variant, prev>>

\* The with block is left, normally or by the exception the last call of
\* the body raised.
Exit == /\ conn = "open"
        /\ \E exc_type \in {"None"} \cup ({last.outcome} \ Returns) :
              /\ Becomes(DbExit(Now, exc_type))
              /\ last' = Did("__exit__", <<exc_type>>, Nothing(Now), 0)
        /\ UNCHANGED <<variant, prev>>

\* DatabaseExecutor(DATABASE_NAME): another manager object takes the place
\* of one whose block was left.
Construct == /\ conn = "closed"
             /\ Becomes(NewManager(disk, nopen))
             /\ last' = Did("__init__", <<>>, Nothing(Now), 0)
             /\ UNCHANGED <<variant, prev>>

\* A call of a method on the manager, in whatever state it is.
Called(op, args, r) == /\ Becomes(r.w)
                       /\ last' = Did(op, args, r, 0)
                       /\ UNCHANGED <<variant, prev>>

CreateTable == \E t \in TableNames, columns \in SchemaInputs : Called("create_table", [table |-> t, columns |-> columns], create_table(Now, t, columns))

WhereText(k) == IF k = "-" THEN <<>> ELSE <<KeyCol(variant), "=", k>>

FetchOne == \E k \in WhereInputs :
               Called("fetchone", [table |-> "tobaccos", where |-> k],
                      IF variant = "legacy" THEN fetchone_legacy(Now, "tobaccos", <<>>, WhereText(k))
                      ELSE fetchone_later(Now, "tobaccos", <<>>, IF k = "-" THEN <<>> ELSE <<<<KeyCol(variant), "=", "?">>, <<k>>>>))

FetchMany == /\ variant = "legacy"
             /\ \E k \in WhereInputs : Called("fetchmany", [table |-> "tobaccos", where |-> k], fetchmany(Now, "tobaccos", <<>>, WhereText(k)))

FetchAll == /\ variant = "later"
            /\ \E k \in WhereInputs, distinct \in BOOLEAN : Called("fetchall", [table |-> "tobaccos", where |-> k], fetchall(Now, "tobaccos", <<>>, WhereText(k), distinct))

Update == \E set \in SetInputs, k \in WhereInputs :
             Called("update", [table |-> "tobaccos", set |-> set, where |-> k],
                    IF variant = "legacy" THEN update_legacy(Now, "tobaccos", <<set[1], "=", set[2]>>, WhereText(k))
                    ELSE update_later(Now, "tobaccos", <<set>>, IF k = "-" THEN <<>> ELSE <<<<KeyCol(variant), k>>>>))

Insert == /\ Len(work["tobaccos"].rows) < MaxRows
          /\ \E key \in Val, aroma \in AromaInputs, named \in BOOLEAN :
                Called("insert", [table |-> "tobaccos", key |-> key, aroma |-> aroma, named |-> named],
                       IF variant = "legacy" THEN insert_legacy(Now, "tobaccos", <<"(", key, ",", aroma, ",", Unknown, ",", DefaultPotency, ")">>, IF named THEN Join(ScriptFields(variant), ",") ELSE <<>>)
                       ELSE insert_later(Now, "tobaccos", <<key, aroma, Unknown>>, IF named THEN ScriptFields(variant) ELSE <<>>))

\* A request is handled from start to end by its own manager object, while
\* the caller's manager is outside any with block.
Handled(route, args, resp) == /\ conn # "open"
                              /\ Len(disk["tobaccos"].rows) < MaxRows
                              /\ disk' = resp.r.w.disk
                              /\ work' = resp.r.w.disk
                              /\ nopen' = resp.r.w.nopen
                              /\ last' = Did(route, args, resp.r, resp.status)
                              /\ UNCHANGED <<variant, conn, inTx, prev>>

PostTobacco == \E data \in (IF variant = "legacy" THEN LegacyRequests ELSE LaterRequests) : Handled("POST /api/tobacco/", data, manage_tobacco_post(variant, disk, nopen, data))

GetTobacco == Handled("GET /api/tobacco/", <<>>, manage_tobacco_get(variant, disk, nopen))

GetByMark == /\ variant = "legacy"
             /\ \E mark \in Val : Handled("GET /api/tobacco/<mark>", mark, get_by_mark(disk, nopen, mark))

GetBrands == /\ variant = "later"
             /\ Handled("GET /api/tobacco/brands", <<>>, get_all_brands_from_db(disk, nopen))

Next == \/ Enter
        \/ Exit
        \/ Construct
        \/ CreateTable
        \/ FetchOne
        \/ FetchMany
        \/ FetchAll
        \/ Update
        \/ Insert
        \/ GetTobacco
        \/ PostTobacco
        \/ GetByMark
        \/ GetBrands

Spec == Init /\ [][Next]_vars

---------------------------------------------------------------------------
(* The later insert and update on argument lists of every shape: calls that *)
(* differ in their values only, and the statement each hands to the store  *)

\* [f for f, _ in pairs]
Firsts(pairs) == [i \in 1..Len(pairs) |-> pairs[i][1]]

SqlValueInputs == {<<"a", "a", Unknown>>, <<"b", "b", Unknown>>, <<"a">>}
SqlFieldInputs == {<<>>, ScriptFields("later")}
SqlSetInputs == {<<<<"aroma", "a">>>>, <<<<"aroma", "b">>>>, <<<<"aroma", "a">>, <<"taste", "b">>>>}
SqlWhereInputs == {<<>>, <<<<"brand", "a">>>>, <<<<"brand", "b">>>>}

\* What of a call decides its statement: the method, the table, the column
\* names and the number of values.
Shape(l) == IF l.op = "insert" THEN <<l.op, l.args.table, l.args.fields, Len(l.args.values)>> ELSE <<l.op, l.args.table, Firsts(l.args.values), Firsts(l.args.where)>>

\* The call's values, in the order the method binds them.
ValuesOf(l) == IF l.op = "insert" THEN l.args.values ELSE Seconds(l.args.values) \o Seconds(l.args.where)

IsWrite(l) == l.op \in {"insert", "update"}

\* The call is made; the call before it is remembered by its shape and its
\* statement.
CalledAfter(op, args, r) == /\ Becomes(r.w)
                            /\ last' = Did(op, args, r, 0)
                            /\ prev' = [last EXCEPT !.rows = <<>>, !.rowcount = -1, !.outcome = "None", !.detail = "", !.io = FALSE, !.again = FALSE]
                            /\ UNCHANGED variant

SqlInsert == /\ Len(work["tobaccos"].rows) < MaxRows
             /\ \E values \in SqlValueInputs, fields \in SqlFieldInputs : CalledAfter("insert", [table |-> "tobaccos", values |-> values, fields |-> fields], insert_later(Now, "tobaccos", values, fields))

SqlUpdate == \E values \in SqlSetInputs, where \in SqlWhereInputs : CalledAfter("update", [table |-> "tobaccos", values |-> values, where |-> where], update_later(Now, "tobaccos", values, where))

\* The later variant inside a with block, the tobaccos table created.
InitSQL == /\ variant = "later"
           /\ conn = "open"
           /\ inTx = FALSE
           /\ work = [EmptyDB EXCEPT !["tobaccos"] = [schema |-> TobaccoSchema("later"), rows |-> <<>>]]
           /\ disk = work
           /\ nopen = 1
           /\ last = FirstDid(Nothing(Now))
           /\ prev = last

NextSQL == \/ SqlInsert
           \/ SqlUpdate

SpecSQL == InitSQL /\ [][NextSQL]_vars

---------------------------------------------------------------------------
(* Properties                                                              *)

\* The last call was a DatabaseExecutor method called on the manager.
CalledOp(l, op) == l.op = op /\ l.op \in ExecutorOps

\* The store ran the statement of the call and raised nothing.
StoreAccepted(l) == l.io /\ l.detail = ""

\* Some stored row of the table holds the value in the key column.
HasKey(db, t, key) == Exists(db, t) /\ \E i \in 1..Len(db[t].rows) : db[t].rows[i][ColIndex(db[t], KeyCol(variant))] = key

\* C1: every Query Executor method called while the manager is not inside an
\* open connection scope (never entered, or already exited) raises
\* RuntimeError, and no statement reaches the store.
\* (Stated for the calls whose arguments pass the method's own validation:
\* create_table checks for an empty schema before it reaches the guard.)
C1_UsageErrorOutsideScope == (last.op \in ExecutorOps /\ conn # "open" /\ ~(last.op = "create_table" /\ last.args.columns = <<>>)) => (last.outcome = "RuntimeError" /\ ~last.io)

\* C2: whenever a connection scope is left, by the end of the body or by an
\* exception, the connection opened on entry is closed: outside a scope no
\* connection is open.
C2_NoConnectionLeftOpen == conn # "open" => nopen = 0

\* A scope was left by an exception and its connection is closed.
C2_Witness == last.op = "__exit__" /\ last.args # <<"None">> /\ conn = "closed" /\ nopen = 0

C4_OnlyUniquenessIsAConflict == (CalledOp(last, "insert") /\ last.outcome = "msg") => last.detail = "UNIQUE"

\* The rows an update is meant to leave: the assignment applied to every
\* row (no condition) or to the rows whose key matches, the others as they
\* were.
UpdatedRows(tb, set, k) == [i \in 1..Len(tb.rows) |-> IF k = "-" \/ tb.rows[i][ColIndex(tb, KeyCol(variant))] = k THEN [tb.rows[i] EXCEPT ![ColIndex(tb, set[1])] = set[2]] ELSE tb.rows[i]]

\* C5 as stated: for any table contents an update applies the assignments
\* to every row (no condition) or to exactly the matching rows, and the
\* number of rows does not change.
C5_UpdateAppliesToRows == [][(CalledOp(last', "update") /\ conn = "open" /\ Exists(work, "tobaccos")) => work'["tobaccos"].rows = UpdatedRows(work["tobaccos"], last'.args.set, last'.args.where)]_vars

\* C5 amended: an update the store accepts applies the assignments to every
\* row (no condition) or to exactly the matching rows; an update the store
\* rejects changes no row; the number of rows never changes.
C5_AcceptedUpdateAppliesToRows == [][(CalledOp(last', "update") /\ conn = "open" /\ Exists(work, "tobaccos")) => ((Len(work'["tobaccos"].rows) = Len(work["tobaccos"].rows)) /\ (StoreAccepted(last') => (work'["tobaccos"].rows = UpdatedRows(work["tobaccos"], last'.args.set, last'.args.where))) /\ ((~StoreAccepted(last')) => (work' = work)))]_vars

\* An accepted update with a condition has changed one of two rows.
C5_Witness == CalledOp(last, "update") /\ StoreAccepted(last) /\ last.args.where # "-" /\ last.rowcount = 1 /\ Len(work["tobaccos"].rows) = 2 /\ last.args.set[1] = "aroma" /\ (\E i \in 1..2 : work["tobaccos"].rows[i][2] = last.args.set[2]) /\ (\E j \in 1..2 : work["tobaccos"].rows[j][2] # last.args.set[2])

\* C6: in the later variant an update the store executes successfully
\* returns the number of rows it affected.
C6_UpdateReturnsRowCount == (variant = "later" /\ CalledOp(last, "update") /\ StoreAccepted(last)) => last.outcome = "int"

\* C7: when create_table, update or a non-conflicting insert returns, its
\* effect is committed: the committed database is the one the connection
\* sees.
C7_WritesCommittedAtReturn == (last.op \in {"create_table", "update", "insert"} /\ last.op \in ExecutorOps /\ last.outcome \in {"None", "int"} /\ conn = "open") => disk = work

\* C8: a request to a defined route, the tobaccos table existing, ends in a
\* response with status 200, 201, 207 or 404.
C8_RoutesAnswer == (last.status # 0 /\ Exists(disk, "tobaccos")) => last.status \in {200, 201, 207, 404}

\* C9: in the later variant the SQL text of insert and update depends only
\* on the table name, the column names and the number of values: two calls
\* that differ in their values only hand the store the same text, no value
\* occurs in the text, and the values are the bound parameters.
C9_SqlTextIndependentOfValues == /\ (IsWrite(last) /\ IsWrite(prev) /\ Shape(last) = Shape(prev)) => last.sql = prev.sql
                                 /\ IsWrite(last) => (last.params = ValuesOf(last) /\ Range(last.sql) \cap Range(last.params) = {})

\* Two calls in a row with the same shape and different values have reached
\* the store.
C9_Witness == IsWrite(last) /\ IsWrite(prev) /\ Shape(last) = Shape(prev) /\ ValuesOf(last) # ValuesOf(prev) /\ last.io /\ last.sql = prev.sql /\ last.op = "update" /\ last.args.where # <<>>

\* C10: inside an open scope a create_table that repeats the call before it
\* (non-empty schema) does not fail and leaves schema and rows as that call
\* left them; with an empty schema create_table raises ValueError and
\* creates nothing.
C10_CreateTableIdempotent == [][CalledOp(last', "create_table") => (((conn = "open" /\ last'.again /\ last'.args.columns # <<>>) => (last'.outcome = "None" /\ work' = work /\ disk' = disk)) /\ ((last'.args.columns = <<>>) => (last'.outcome = "ValueError" /\ ~last'.io /\ work' = work /\ disk' = disk)))]_vars

\* create_table has been repeated on the table it created.
C10_Witness == CalledOp(last, "create_table") /\ last.again /\ last.outcome = "None" /\ conn = "open" /\ Exists(work, last.args.table) /\ work[last.args.table].schema = last.args.columns

\* The request was handled by the legacy add_tobacco_to_database while the
\* tobaccos table existed.
LegacyPost(l) == variant = "legacy" /\ l.op = "POST /api/tobacco/" /\ Exists(disk, "tobaccos")

\* The key of entry i of the request is stored when its insert runs: it was
\* committed before the request, or an earlier entry of the request has it.
KeyStoredAt(items, i) == HasKey(disk, "tobaccos", items[i][1]) \/ (\E j \in 1..(i - 1) : items[j][1] = items[i][1])

\* The row entry i of the request stands for.
EntryRow(item) == <<item[1], Get(item[2], "flavour", Unknown), Get(item[2], "aroma", Unknown), DefaultPotency>>

\* The rows of the entries whose key is not stored at their insert, in
\* request order.
NewRows(items) == LET f[i \in 0..Len(items)] == IF i = 0 THEN <<>> ELSE IF KeyStoredAt(items, i) THEN f[i - 1] ELSE Append(f[i - 1], EntryRow(items[i])) IN f[Len(items)]

C12_FailedUpdateChangesNothing == [][(variant = "later" /\ CalledOp(last', "update") /\ last'.outcome \notin Returns) => (disk' = disk)]_vars

====
